---------------------------- MODULE Spec2Model ----------------------------
(***************************************************************************)
(* A model of cellCnn/plotting.py, function plot_results_2class: the       *)
(* selection of discriminative filters, the cell filter response, the      *)
(* response cutoff, the selected cell population, the optional clustering  *)
(* stage and the files the function writes.                                *)
(*                                                                         *)
(* Conventions.                                                            *)
(*  - numpy arrays and Python lists are sequences; the source counts from  *)
(*    0 and the model from 1, so position i of the source is position i+1  *)
(*    here, and filter number i of the source is filter i+1.               *)
(*  - floating point numbers are exact rationals [n |-> .., d |-> ..] with *)
(*    d > 0 (rounding is not modelled); marker values, weights and the     *)
(*    'dist' entries are integers.                                         *)
(*  - Python's None is the value None below for numbers, the empty matrix  *)
(*    for results['selected_filters'] and the string "None" for            *)
(*    clustering.                                                          *)
(*  - a row of the filter matrix is <<w_1, .., w_nmark, b, out>>.          *)
(*  - np.argsort leaves the order of equal scores to the sort; every order *)
(*    of ties is allowed.  The labels returned by the clustering library   *)
(*    and the order of Counter.items() are chosen nondeterministically.    *)
(*  - plot_tsne is False (its default); the rendering calls are modelled   *)
(*    by the names of the files they save.                                 *)
(***************************************************************************)
EXTENDS Integers, Sequences, FiniteSets, TLC

VARIABLES
    results,                 \* dict: w_best_net, selected_filters, scaler, optionally dist
    samples,                 \* list of cell matrices
    percentage_drop_filter,
    filter_response_thres,
    response_grad_cutoff,
    positive_filters_only,
    clustering,
    percentage_drop_cluster,
    min_cluster_freq,
    pc,                      \* position in plot_results_2class
    filters,                 \* the filter matrix in use
    dist,                    \* the scores, sorted after line 152
    sorted_idx,              \* line 151, and again line 260 for the clusters
    keep_idx,
    x, z, sample_sizes,      \* stacked cells, per-cell sample ids
    k,                       \* position of the loop of line 182 in keep_idx
    g, t, x1, z1, g1,        \* the current filter's response, cutoff and selection
    clusters, cluster_ids, scores, keep_idx_comm,
    return_filters,
    files,                   \* the files saved so far
    responses                \* per processed filter: what lines 183-211 computed

vars == <<results, samples, percentage_drop_filter, filter_response_thres,
          response_grad_cutoff, positive_filters_only, clustering,
          percentage_drop_cluster, min_cluster_freq, pc, filters, dist,
          sorted_idx, keep_idx, x, z, sample_sizes, k, g, t, x1, z1, g1,
          clusters, cluster_ids, scores, keep_idx_comm,
          return_filters, files, responses>>

---------------------------------------------------------------------------
(* Bounds of the model. *)

MaxFilters == 3      \* rows of the filter matrix
MaxCells == 2        \* cells per sample in the response inputs
MaxClusters == 3     \* cluster labels 0 .. MaxClusters-1, and -1 for noise

(* np.linspace(start, stop) samples num=50 points. *)
NumPoints == 50

---------------------------------------------------------------------------
(* Numbers. *)

None == [n |-> 0, d |-> 0]

Rat(a, b) == [n |-> a, d |-> b]
Int2Rat(a) == [n |-> a, d |-> 1]
RLess(a, b) == a.n * b.d < b.n * a.d
RLeq(a, b) == a.n * b.d <= b.n * a.d
REq(a, b) == a.n * b.d = b.n * a.d
RSub(a, b) == [n |-> a.n * b.d - b.n * a.d, d |-> a.d * b.d]
RMul(a, b) == [n |-> a.n * b.n, d |-> a.d * b.d]

Abs(a) == IF a < 0 THEN -a ELSE a
Sign(a) == IF a > 0 THEN 1 ELSE IF a < 0 THEN -1 ELSE 0
Max2(a, b) == IF a >= b THEN a ELSE b

RECURSIVE SeqSum(_)
SeqSum(s) == IF s = <<>> THEN 0 ELSE Head(s) + SeqSum(Tail(s))

RECURSIVE SeqMax(_)
SeqMax(s) == IF Len(s) = 1 THEN s[1] ELSE Max2(s[1], SeqMax(Tail(s)))

RECURSIVE SeqMin(_)
SeqMin(s) == IF Len(s) = 1 THEN s[1]
             ELSE LET m == SeqMin(Tail(s)) IN IF s[1] <= m THEN s[1] ELSE m

Reverse(s) == [i \in 1..Len(s) |-> s[Len(s) + 1 - i]]

RECURSIVE Concat(_)
Concat(ss) == IF ss = <<>> THEN <<>> ELSE Head(ss) \o Concat(Tail(ss))

(* The positions of s, in order, whose mask entry is TRUE (numpy boolean *)
(* indexing a[mask]).                                                    *)
RECURSIVE MaskFrom(_, _, _)
MaskFrom(s, mask, i) ==
    IF i > Len(s) THEN <<>>
    ELSE IF mask[i] THEN <<s[i]>> \o MaskFrom(s, mask, i + 1)
    ELSE MaskFrom(s, mask, i + 1)
Mask(s, mask) == MaskFrom(s, mask, 1)


---------------------------------------------------------------------------
(* Lines 140-158: the discriminative scores and the filter selection. *)

Last(s) == s[Len(s)]

(* line 115: nmark = samples[0].shape[1] *)
NMark(smp) == Len(smp[1][1])

(* lines 123-131: the filter matrix in use *)
ChooseFilters(res) ==
    IF res.selected_filters # <<>> THEN res.selected_filters ELSE res.w_best_net

(* BaseDist without the validation distances: always the output weight *)
BaseDistOutputWeight(res, flt) ==
    [i \in 1..Len(flt) |-> Int2Rat(Abs(Last(flt[i])))]

(* lines 141-147 *)
BaseDist(res, flt) ==
    IF "dist" \in DOMAIN res
    THEN [i \in 1..Len(res.dist) |-> Int2Rat(SeqMax(res.dist[i]))]
    ELSE [i \in 1..Len(flt) |-> Int2Rat(Abs(Last(flt[i])))]

(* lines 149-150 *)
SignedDist(d, flt, pfo) ==
    IF pfo THEN [i \in 1..Len(d) |-> RMul(d[i], Int2Rat(Sign(Last(flt[i]))))]
    ELSE d

(* np.argsort(d)[::-1]: the orders of the positions of d that sort it in *)
(* decreasing order                                                      *)
ArgsortDesc(d) ==
    {p \in [1..Len(d) -> 1..Len(d)] :
        /\ \A i, j \in 1..Len(d) : i # j => p[i] # p[j]
        /\ \A i \in 1..(Len(d) - 1) : RLeq(d[p[i + 1]], d[p[i]])}

Take(d, idx) == [i \in 1..Len(idx) |-> d[idx[i]]]

(* KeepLoop with the drop measured against the current score *)
RECURSIVE KeepLoopDropOfCurrent(_, _, _, _, _)
KeepLoopDropOfCurrent(d, idx, drop, i, keep) ==
    IF i > Len(d) THEN keep
    ELSE IF RLess(RSub(d[i - 1], d[i]), RMul(drop, d[i]))
         THEN KeepLoopDropOfCurrent(d, idx, drop, i + 1, Append(keep, idx[i]))
         ELSE keep

(* KeepLoop without the break: a failing position is passed over *)
RECURSIVE KeepLoopNoBreak(_, _, _, _, _)
KeepLoopNoBreak(d, idx, drop, i, keep) ==
    IF i > Len(d) THEN keep
    ELSE IF RLess(RSub(d[i - 1], d[i]), RMul(drop, d[i - 1]))
         THEN KeepLoopNoBreak(d, idx, drop, i + 1, Append(keep, idx[i]))
         ELSE KeepLoopNoBreak(d, idx, drop, i + 1, keep)

(* lines 153-158: the loop over the sorted scores, with its break *)
RECURSIVE KeepLoop(_, _, _, _, _)
KeepLoop(d, idx, drop, i, keep) ==
    IF i > Len(d) THEN keep
    ELSE IF RLess(RSub(d[i - 1], d[i]), RMul(drop, d[i - 1]))
         THEN KeepLoop(d, idx, drop, i + 1, Append(keep, idx[i]))
         ELSE keep

KeepIdx(d, idx, drop) == KeepLoop(d, idx, drop, 2, <<idx[1]>>)

---------------------------------------------------------------------------
(* Lines 168-211: the cells, the cell filter response and its cutoff. *)

(* lines 169-173 *)
SampleSizes(smp) == [i \in 1..Len(smp) |-> Len(smp[i])]
PerCellIds(smp) == [i \in 1..Len(smp) |-> [c \in 1..Len(smp[i]) |-> i]]

(* lines 178-179: the scaler is a centring scaler, transform subtracts its *)
(* per-marker mean; <<>> is None                                           *)
ScalerTransform(scaler, cells) ==
    IF scaler # <<>>
    THEN [c \in 1..Len(cells) |-> [j \in 1..Len(cells[c]) |-> cells[c][j] - scaler[j]]]
    ELSE cells

(* Projection with the last column of the row taken for the bias *)
ProjectionBiasLast(row, cell, nmark) ==
    LET w == SubSeq(row, 1, nmark)
        b == row[Len(row)]
    IN  SeqSum([j \in 1..nmark |-> w[j] * cell[j]]) + b

(* lines 183-185: np.sum(w.reshape(1, -1) * x, axis=1) + b for one cell *)
Projection(row, cell, nmark) ==
    LET w == SubSeq(row, 1, nmark)
        b == row[nmark + 1]
    IN  SeqSum([j \in 1..nmark |-> w[j] * cell[j]]) + b

(* line 186: g = g * (g > 0) *)
Rectify(v) == v * (IF v > 0 THEN 1 ELSE 0)

Response(row, cells, nmark) ==
    [c \in 1..Len(cells) |-> Rectify(Projection(row, cells[c], nmark))]

(* line 189: np.linspace(np.min(g), np.max(g)) *)
Linspace(lo, hi) ==
    [i \in 1..NumPoints |->
        Rat((NumPoints - 1) * lo + (i - 1) * (hi - lo), NumPoints - 1)]

(* lines 188, 190: the empirical CDF of the responses at the point v *)
ECDF(resp, v) ==
    Rat(Cardinality({c \in 1..Len(resp) : RLeq(Int2Rat(resp[c]), v)}), Len(resp))

(* GradCutoff with the upper point of the pair *)
GradCutoffUpper(gx, gy, cutoff, default) ==
    LET by == Reverse(gy)
        bx == Reverse(gx)
        b_diff_idx == {i \in 1..(Len(by) - 1) : RLeq(cutoff, RSub(by[i], by[i + 1]))}
        first == CHOOSE i \in b_diff_idx : \A j \in b_diff_idx : i <= j
    IN  IF b_diff_idx # {} THEN bx[first] ELSE default

(* lines 197-201: the cutoff read off the reversed CDF, or the default *)
GradCutoff(gx, gy, cutoff, default) ==
    LET by == Reverse(gy)
        bx == Reverse(gx)
        b_diff_idx == {i \in 1..(Len(by) - 1) : RLeq(cutoff, RSub(by[i], by[i + 1]))}
        first == CHOOSE i \in b_diff_idx : \A j \in b_diff_idx : i <= j
    IN  IF b_diff_idx # {} THEN bx[first + 1] ELSE default

(* lines 188-201 *)
Threshold(resp, thres, cutoff) ==
    LET gx == Linspace(SeqMin(resp), SeqMax(resp))
        gy == [i \in 1..NumPoints |-> ECDF(resp, gx[i])]
    IN  IF cutoff # None THEN GradCutoff(gx, gy, cutoff, thres) ELSE thres

(* Condition with g >= t *)
ConditionGeq(resp, thr) == [c \in 1..Len(resp) |-> RLeq(thr, Int2Rat(resp[c]))]

(* line 208: condition = g > t *)
Condition(resp, thr) == [c \in 1..Len(resp) |-> RLess(thr, Int2Rat(resp[c]))]

---------------------------------------------------------------------------
(* Lines 245-267: the clusters kept for one filter. *)

Members(cl, id) == {c \in 1..Len(cl) : cl[c] = id}

(* line 248: int(min_cluster_freq * x1.shape[0]) *)
MinCells(freq, n) == (freq.n * n) \div freq.d

(* lines 246-251: the clusters that are not noise and have enough cells *)
LargeClusters(cl, freq) ==
    {id \in {cl[c] : c \in 1..Len(cl)} :
        id # -1 /\ Cardinality(Members(cl, id)) > MinCells(freq, Len(cl))}

(* the orders in which Counter.items() may list a set of keys *)
Orders(S) ==
    {p \in [1..Cardinality(S) -> S] : \A i, j \in 1..Cardinality(S) : i # j => p[i] # p[j]}

(* lines 254-257: the mean response of each cluster *)
ClusterScores(ids, cl, resp) ==
    [j \in 1..Len(ids) |->
        Rat(SeqSum(Mask(resp, [c \in 1..Len(cl) |-> cl[c] = ids[j]])),
            Cardinality(Members(cl, ids[j])))]

(* KeepCommLoop with the drop ratio of the filter stage's default, 0.2 *)
RECURSIVE KeepCommLoopFilterDrop(_, _, _, _, _)
KeepCommLoopFilterDrop(sc, idx, drop, i, keep) ==
    IF i > Len(sc) THEN keep
    ELSE IF RLess(RSub(sc[i - 1], sc[i]), RMul(Rat(2, 10), sc[i - 1]))
         THEN KeepCommLoopFilterDrop(sc, idx, drop, i + 1, Append(keep, idx[i]))
         ELSE keep

(* lines 262-267: the loop over the sorted cluster scores *)
RECURSIVE KeepCommLoop(_, _, _, _, _)
KeepCommLoop(sc, idx, drop, i, keep) ==
    IF i > Len(sc) THEN keep
    ELSE IF RLess(RSub(sc[i - 1], sc[i]), RMul(drop, sc[i - 1]))
         THEN KeepCommLoop(sc, idx, drop, i + 1, Append(keep, idx[i]))
         ELSE keep

KeepIdxComm(sc, idx, drop) == KeepCommLoop(sc, idx, drop, 2, <<idx[1]>>)


---------------------------------------------------------------------------
(* The files saved by the rendering calls: <<name, filter, cluster>>, with *)
(* 0 where the name has no filter or cluster number.                        *)

File(name) == <<name, 0, 0>>
FilterFile(name, i) == <<name, i, 0>>
ClusterFile(name, i, id) == <<name, i, id>>

(* PlotSelectedSubset without the boxplot *)
PlotDistributionOnly(i) ==
    {FilterFile("selected_population_distribution_filter", i)}

(* lines 302-305 and 346-347 of plot_selected_subset, suffix 'filter_%d' *)
PlotSelectedSubset(i) ==
    {FilterFile("selected_population_distribution_filter", i),
     FilterFile("selected_population_boxplot_filter", i)}

(* the same, suffix 'filter_%d_cluster_%d' *)
PlotSelectedCluster(i, id) ==
    {ClusterFile("selected_population_distribution_filter_cluster", i, id),
     ClusterFile("selected_population_boxplot_filter_cluster", i, id)}

(* lines 117-138 *)
WeightPlots(res) ==
    {File("best_net_weights"), File("clustered_filter_weights")}
    \cup (IF res.selected_filters # <<>> THEN {File("consensus_filter_weights")} ELSE {})

---------------------------------------------------------------------------
(* The inputs. *)

Seqs(S, lo, hi) == UNION {[1..n -> S] : n \in lo..hi}

Params(pdf, frt, rgc, pfo, clu, pdc, mcf) ==
    [percentage_drop_filter |-> pdf, filter_response_thres |-> frt,
     response_grad_cutoff |-> rgc, positive_filters_only |-> pfo,
     clustering |-> clu, percentage_drop_cluster |-> pdc, min_cluster_freq |-> mcf]

DefaultNet == << <<1, 1, 0, 3>> >>

(* results with the filter matrix F as the consensus filters or as the *)
(* best network                                                         *)
Results(F, consensus, scaler) ==
    IF consensus
    THEN [w_best_net |-> DefaultNet, selected_filters |-> F, scaler |-> scaler]
    ELSE [w_best_net |-> F, selected_filters |-> <<>>, scaler |-> scaler]

WithDist(res, D) == [key \in DOMAIN res \cup {"dist"} |-> IF key = "dist" THEN D ELSE res[key]]

(* Filter selection: many score arrays, two cells. *)
SelRows == {<<1, 0, 0, -2>>, <<1, 0, 0, 1>>, <<1, 0, -1, 2>>}
SelDistRows == {<<0, 2>>, <<1, 0>>}
SelSamples == << << <<1, 0>> >>, << <<0, 1>> >> >>
SelResults ==
    UNION {{Results(F, TRUE, <<>>)}
           \cup {WithDist(Results(F, TRUE, <<>>), D) : D \in Seqs(SelDistRows, Len(F), Len(F))}
           : F \in Seqs(SelRows, 1, MaxFilters)}
SelInputs ==
    {[results |-> r, samples |-> SelSamples,
      params |-> Params(pdf, Rat(0, 1), None, pfo, "None", Rat(1, 10), Rat(2, 10))] :
        r \in SelResults, pdf \in {Rat(2, 10), Rat(6, 10)}, pfo \in BOOLEAN}

(* Cell filter response: one filter, many cells and cutoffs. *)
RespRows == {<<w, 1, b, 1>> : w \in {-1, 1}, b \in {-1, 0, 1}}
RespCells == {<<0, 1>>, <<2, 1>>, <<3, 0>>}
RespInputs ==
    {[results |-> Results(<<row>>, consensus, scaler),
      samples |-> <<first, << <<1, 1>> >> >>,
      params |-> Params(Rat(2, 10), frt, rgc, FALSE, "None", Rat(1, 10), Rat(2, 10))] :
        row \in RespRows, consensus \in BOOLEAN, scaler \in {<<>>, <<1, 0>>},
        first \in Seqs(RespCells, 1, MaxCells),
        frt \in {Rat(0, 1), Rat(1, 1)}, rgc \in {None, Rat(3, 10), Rat(1, 2)}}

(* Clustering: fixed filters, the cluster labels are chosen at line 238/243. *)
CluFilters == {<< <<1, 1, 0, 1>> >>, << <<1, 1, 0, 2>>, <<1, 0, -5, 1>> >>}
CluSamples ==
    {<< << <<2, 2>>, <<1, 1>> >>, << <<1, 0>> >> >>,
     << << <<3, 2>>, <<2, 1>> >>, << <<1, 0>>, <<2, 0>> >> >>,
     << << <<3, 3>>, <<1, 0>> >>, << <<1, 0>>, <<0, 1>> >> >>}
CluInputs ==
    {[results |-> Results(F, FALSE, <<>>), samples |-> smp,
      params |-> Params(Rat(2, 10), Rat(0, 1), None, FALSE, clu, pdc, mcf)] :
        F \in CluFilters, smp \in CluSamples, clu \in {"dbscan", "louvain"},
        pdc \in {Rat(1, 10), Rat(6, 10)}, mcf \in {Rat(2, 10), Rat(1, 2)}}

Inputs == SelInputs \cup RespInputs \cup CluInputs

Labels == -1..(MaxClusters - 1)

---------------------------------------------------------------------------
(* The state machine. *)

Init ==
    \E inp \in Inputs :
        /\ results = inp.results
        /\ samples = inp.samples
        /\ percentage_drop_filter = inp.params.percentage_drop_filter
        /\ filter_response_thres = inp.params.filter_response_thres
        /\ response_grad_cutoff = inp.params.response_grad_cutoff
        /\ positive_filters_only = inp.params.positive_filters_only
        /\ clustering = inp.params.clustering
        /\ percentage_drop_cluster = inp.params.percentage_drop_cluster
        /\ min_cluster_freq = inp.params.min_cluster_freq
        /\ pc = "start"
        /\ filters = <<>> /\ dist = <<>> /\ sorted_idx = <<>> /\ keep_idx = <<>>
        /\ x = <<>> /\ z = <<>> /\ sample_sizes = <<>>
        /\ k = 0
        /\ g = <<>> /\ t = None /\ x1 = <<>> /\ z1 = <<>> /\ g1 = <<>>
        /\ clusters = <<>> /\ cluster_ids = <<>> /\ scores = <<>> /\ keep_idx_comm = <<>>
        /\ return_filters = <<>>
        /\ files = {}
        /\ responses = <<>>

inputs == <<results, samples, percentage_drop_filter, filter_response_thres,
            response_grad_cutoff, positive_filters_only, clustering,
            percentage_drop_cluster, min_cluster_freq>>
selection == <<filters, dist, sorted_idx, keep_idx>>
cells == <<x, z, sample_sizes>>
current == <<g, t, x1, z1, g1>>
communities == <<clusters, cluster_ids, scores, keep_idx_comm>>

(* lines 111-138: the filter matrix and the weight plots *)
LoadFilters ==
    /\ pc = "start"
    /\ filters' = ChooseFilters(results)
    /\ files' = files \cup WeightPlots(results)
    /\ pc' = "select"
    /\ UNCHANGED <<inputs, dist, sorted_idx, keep_idx, cells, k, current, communities,
                   return_filters, responses>>

(* lines 140-166: rank the filters and keep the leading ones *)
SelectFilters ==
    /\ pc = "select"
    /\ LET d == SignedDist(BaseDist(results, filters), filters, positive_filters_only)
       IN  \E idx \in ArgsortDesc(d) :
              /\ sorted_idx' = idx
              /\ dist' = Take(d, idx)
              /\ keep_idx' = KeepIdx(Take(d, idx), idx, percentage_drop_filter)
    /\ files' = files \cup {File("filter_response_differences")}
    /\ pc' = "encode"
    /\ UNCHANGED <<inputs, filters, cells, k, current, communities, return_filters,
                   responses>>

(* lines 168-181: stack the samples *)
EncodeCells ==
    /\ pc = "encode"
    /\ sample_sizes' = SampleSizes(samples)
    /\ z' = Concat(PerCellIds(samples))
    /\ x' = ScalerTransform(results.scaler, Concat(samples))
    /\ return_filters' = <<>>
    /\ k' = 1
    /\ pc' = "loop"
    /\ UNCHANGED <<inputs, selection, current, communities, files, responses>>

i_filter == keep_idx[k]

(* lines 182-211: response, cutoff and selected cells of the next kept filter *)
FilterResponse ==
    /\ pc = "loop"
    /\ k <= Len(keep_idx)
    /\ LET resp == Response(filters[i_filter], x, NMark(samples))
           thr == Threshold(resp, filter_response_thres, response_grad_cutoff)
           condition == Condition(resp, thr)
       IN  /\ g' = resp
           /\ t' = thr
           /\ x1' = Mask(x, condition)
           /\ z1' = Mask(z, condition)
           /\ g1' = Mask(resp, condition)
           /\ responses' = Append(responses, [i_filter |-> i_filter, g |-> resp, t |-> thr,
                                               x1 |-> Mask(x, condition)])
    /\ files' = files \cup {FilterFile("cdf_filter", i_filter)}
    /\ pc' = "selected"
    /\ UNCHANGED <<inputs, selection, cells, k, communities, return_filters>>

(* lines 213-215: a filter that selects no cell is skipped *)
SkipFilter ==
    /\ pc = "selected"
    /\ Len(x1) = 0
    /\ k' = k + 1
    /\ pc' = "loop"
    /\ UNCHANGED <<inputs, selection, cells, current, communities, return_filters, files,
                   responses>>

(* KeepFilter without the test of line 214 *)
KeepFilterAlways ==
    /\ pc = "selected"
    /\ return_filters' = Append(return_filters, <<i_filter, t>>)
    /\ pc' = "plot"
    /\ UNCHANGED <<inputs, selection, cells, k, current, communities, files, responses>>

(* lines 216-217 *)
KeepFilter ==
    /\ pc = "selected"
    /\ Len(x1) # 0
    /\ return_filters' = Append(return_filters, <<i_filter, t>>)
    /\ pc' = "plot"
    /\ UNCHANGED <<inputs, selection, cells, k, current, communities, files, responses>>

(* lines 227-230 *)
PlotFilter ==
    /\ pc = "plot"
    /\ clustering = "None"
    /\ files' = files \cup PlotSelectedSubset(i_filter)
    /\ k' = k + 1
    /\ pc' = "loop"
    /\ UNCHANGED <<inputs, selection, cells, current, communities, return_filters,
                   responses>>

(* lines 231-267: cluster the selected cells and keep the leading clusters; *)
(* sorted_idx[0] of line 262 raises IndexError when no cluster is large     *)
(* enough                                                                   *)
ClusterCells ==
    /\ pc = "plot"
    /\ clustering # "None"
    /\ \E cl \in [1..Len(x1) -> Labels] :
         \E ids \in Orders(LargeClusters(cl, min_cluster_freq)) :
            LET sc == ClusterScores(ids, cl, g1)
            IN  /\ clusters' = cl
                /\ cluster_ids' = ids
                /\ \E idx \in ArgsortDesc(sc) :
                      /\ sorted_idx' = idx
                      /\ scores' = Take(sc, idx)
                      /\ IF Len(ids) = 0
                         THEN pc' = "raised" /\ keep_idx_comm' = <<>>
                         ELSE /\ pc' = "clusters"
                              /\ keep_idx_comm' =
                                    KeepIdxComm(Take(sc, idx), idx, percentage_drop_cluster)
    /\ files' = files \cup (IF clustering = "louvain" THEN {} ELSE {File("kNN_distances")})
    /\ UNCHANGED <<inputs, filters, dist, keep_idx, cells, k, current, return_filters,
                   responses>>

(* lines 269-275 *)
RenderClusters ==
    /\ pc = "clusters"
    /\ files' = files \cup UNION {PlotSelectedCluster(i_filter, cluster_ids[keep_idx_comm[j]]) :
                                     j \in 1..Len(keep_idx_comm)}
    /\ k' = k + 1
    /\ pc' = "loop"
    /\ UNCHANGED <<inputs, selection, cells, current, communities, return_filters,
                   responses>>

(* lines 276-277: the print of line 276 takes element 0 of the unzipped *)
(* return_filters, which raises IndexError when the list is empty       *)
Return ==
    /\ pc = "loop"
    /\ k > Len(keep_idx)
    /\ return_filters # <<>>
    /\ pc' = "done"
    /\ UNCHANGED <<inputs, selection, cells, k, current, communities, return_filters,
                   files, responses>>

RaiseNoFilter ==
    /\ pc = "loop"
    /\ k > Len(keep_idx)
    /\ return_filters = <<>>
    /\ pc' = "raised"
    /\ UNCHANGED <<inputs, selection, cells, k, current, communities, return_filters,
                   files, responses>>

Next ==
    \/ LoadFilters
    \/ SelectFilters
    \/ EncodeCells
    \/ FilterResponse
    \/ SkipFilter
    \/ KeepFilter
    \/ PlotFilter
    \/ ClusterCells
    \/ RenderClusters
    \/ Return
    \/ RaiseNoFilter

Spec == Init /\ [][Next]_vars


---------------------------------------------------------------------------
(* Notions the properties are stated with. *)

Range(s) == {s[i] : i \in 1..Len(s)}
Injective(s) == \A i, j \in 1..Len(s) : i # j => s[i] # s[j]
Ranked == pc \notin {"start", "select"}

(* diff[i-1] - diff[i] < drop * diff[i-1], at position i >= 2 of the model *)
SmallDrop(d, drop, i) ==
    (d[i - 1].n * d[i].d - d[i].n * d[i - 1].d) * drop.d < drop.n * d[i - 1].n * d[i].d

(* the length of the longest prefix of d all of whose later members pass *)
PrefixLen(d, drop) ==
    CHOOSE m \in 1..Len(d) :
        /\ \A i \in 2..m : SmallDrop(d, drop, i)
        /\ m < Len(d) => ~SmallDrop(d, drop, m + 1)

(* the linear projection of a cell onto a filter plus the bias *)
RECURSIVE WeightedSum(_, _, _)
WeightedSum(row, cell, n) ==
    IF n = 0 THEN 0 ELSE row[n] * cell[n] + WeightedSum(row, cell, n - 1)
Linear(i, c) == WeightedSum(filters[i], x[c], Len(x[c])) + filters[i][Len(x[c]) + 1]

(* the positions of the cells with response above the cutoff, in order *)
Above(resp, thr) == {c \in 1..Len(resp) : resp[c] * thr.d > thr.n}
Enumerate(S) ==
    [i \in 1..Cardinality(S) |->
        CHOOSE c \in S : Cardinality({b \in S : b < c}) = i - 1]

Returned == {return_filters[i][1] : i \in 1..Len(return_filters)}

---------------------------------------------------------------------------
(* C1 *)

---------------------------------------------------------------------------
(* C2 *)

---------------------------------------------------------------------------
(* C3 *)

(* C3: every returned pair <<i, thr>> names a kept filter i with the cutoff *)
(* thr its cells were selected with, some cell responds above thr, the     *)
(* pairs follow the ranking of keep_idx (decreasing score), and a kept     *)
(* filter that selects no cell is not returned.                            *)
C3_ReturnedFilters ==
    /\ \A p \in 1..Len(return_filters) :
          LET i == return_filters[p][1]
              thr == return_filters[p][2]
          IN  /\ i \in Range(keep_idx)
              /\ \E r \in Range(responses) :
                    /\ r.i_filter = i
                    /\ r.t = thr
                    /\ r.x1 = [n \in 1..Cardinality(Above(r.g, thr)) |->
                                  x[Enumerate(Above(r.g, thr))[n]]]
              /\ \E c \in 1..Len(x) : Max2(0, Linear(i, c)) * thr.d > thr.n
    /\ \A p, q \in 1..Len(return_filters) :
          p < q => \E a, b \in 1..Len(keep_idx) :
                      /\ a < b
                      /\ keep_idx[a] = return_filters[p][1]
                      /\ keep_idx[b] = return_filters[q][1]
                      /\ RLeq(dist[b], dist[a])
    /\ \A r \in Range(responses) : Above(r.g, r.t) = {} => r.i_filter \notin Returned

C3_Witness ==
    /\ pc = "done"
    /\ Len(keep_idx) = 3
    /\ Len(return_filters) = 2
    /\ keep_idx[2] \notin Returned

---------------------------------------------------------------------------
(* C4 *)

(* C4: the response of every cell to every kept filter is max(0, w.x + b), *)
(* with w the first nmark entries of the filter row and b the next one; it *)
(* is never negative and is 0 exactly when w.x + b <= 0.                   *)
C4_RectifiedResponse ==
    \A r \in Range(responses) :
        \A c \in 1..Len(x) :
            /\ r.g[c] = Max2(0, Linear(r.i_filter, c))
            /\ r.g[c] >= 0
            /\ r.g[c] = 0 <=> Linear(r.i_filter, c) <= 0

C4_Witness ==
    \E r \in Range(responses) :
        /\ \E c \in 1..Len(x) : Linear(r.i_filter, c) < 0 /\ r.g[c] = 0
        /\ \E c \in 1..Len(x) : Linear(r.i_filter, c) > 1 /\ r.g[c] > 1
        /\ results.scaler # <<>>

---------------------------------------------------------------------------
(* C5 *)

HasCurrent == pc \in {"selected", "plot", "clusters"}

(* C5: the selected population of a kept filter is the cells with g > t,  *)
(* and x1, z1 and g1 list them in the order of x; with the default         *)
(* filter_response_thres = 0 and response_grad_cutoff = None these are the *)
(* cells with w.x + b > 0.                                                 *)
C5_SelectedPopulation ==
    HasCurrent =>
        LET sel == Enumerate(Above(g, t))
        IN  /\ x1 = [n \in 1..Len(sel) |-> x[sel[n]]]
            /\ z1 = [n \in 1..Len(sel) |-> z[sel[n]]]
            /\ g1 = [n \in 1..Len(sel) |-> g[sel[n]]]
            /\ (filter_response_thres = Rat(0, 1) /\ response_grad_cutoff = None)
                  => Above(g, t) = {c \in 1..Len(x) : Linear(i_filter, c) > 0}

C5_Witness ==
    /\ pc = "selected"
    /\ Len(x1) = 2
    /\ Len(x) = 3
    /\ g[1] = 0
    /\ z1 = <<1, 2>>
    /\ filter_response_thres = Rat(0, 1)
    /\ response_grad_cutoff = None

---------------------------------------------------------------------------
(* C6 *)

(* C6: with positive_filters_only no filter with a negative output weight *)
(* is kept or returned.                                                    *)
C6_NoNegativeFilterKept ==
    positive_filters_only =>
        /\ \A i \in Range(keep_idx) : Last(filters[i]) >= 0
        /\ \A i \in Returned : Last(filters[i]) >= 0

---------------------------------------------------------------------------
(* C7 *)

DistributionFiles == {f \in files : f[1] = "selected_population_distribution_filter"}
BoxplotFiles == {f \in files : f[1] = "selected_population_boxplot_filter"}

(* C7: without clustering, when the function returns, the cdf,             *)
(* distribution and boxplot files of every returned filter exist, and at   *)
(* no time is there a distribution or boxplot file of a filter that is not *)
(* in return_filters.                                                      *)
C7_PerFilterPlots ==
    clustering = "None" =>
        /\ pc = "done" =>
              \A i \in Returned :
                  /\ <<"cdf_filter", i, 0>> \in files
                  /\ <<"selected_population_distribution_filter", i, 0>> \in files
                  /\ <<"selected_population_boxplot_filter", i, 0>> \in files
        /\ \A f \in DistributionFiles \cup BoxplotFiles : f[2] \in Returned

C7_Witness ==
    /\ clustering = "None"
    /\ pc = "done"
    /\ Len(return_filters) = 2
    /\ \E i \in Range(keep_idx) : i \notin Returned
    /\ Cardinality(BoxplotFiles) = 2


---------------------------------------------------------------------------
(* C8 *)

(* the mean response of the selected cells that carry the label id *)
MeanResponse(id) ==
    LET M == {c \in 1..Len(g1) : clusters[c] = id}
    IN  Rat(WeightedSum(g1, [c \in 1..Len(g1) |-> IF c \in M THEN 1 ELSE 0], Len(g1)),
            Cardinality(M))

ClusterFiles(i) ==
    {f \in files : /\ f[2] = i
                   /\ f[1] \in {"selected_population_distribution_filter_cluster",
                                "selected_population_boxplot_filter_cluster"}}

(* C8: the clusters kept for a filter are what the filter-stage selection  *)
(* keeps when given the clusters' mean responses, sorted in decreasing     *)
(* order, and percentage_drop_cluster: the longest prefix of the sorted    *)
(* clusters whose later members all have a small drop.  Once rendered,     *)
(* the filter has one distribution and one boxplot file per kept cluster.  *)
C8_ClusterStageIsFilterStage ==
    /\ pc = "clusters" =>
          /\ \A j \in 1..Len(scores) :
                REq(scores[j], MeanResponse(cluster_ids[sorted_idx[j]]))
          /\ \A j \in 1..(Len(scores) - 1) : RLeq(scores[j + 1], scores[j])
          /\ keep_idx_comm = KeepIdx(scores, sorted_idx, percentage_drop_cluster)
          /\ keep_idx_comm =
                SubSeq(sorted_idx, 1, PrefixLen(scores, percentage_drop_cluster))
    /\ (pc = "loop" /\ clustering # "None" /\ k > 1 /\ keep_idx[k - 1] \in Returned) =>
          ClusterFiles(keep_idx[k - 1]) =
              UNION {PlotSelectedCluster(keep_idx[k - 1], cluster_ids[j]) :
                        j \in Range(keep_idx_comm)}

C8_Witness ==
    /\ pc = "loop"
    /\ clustering # "None"
    /\ k = 2
    /\ Len(scores) = 3
    /\ Len(keep_idx_comm) = 2
    /\ ~REq(scores[1], scores[2])
    /\ Cardinality(ClusterFiles(keep_idx[1])) = 4

---------------------------------------------------------------------------
(* C9 *)

RowMax(row) == CHOOSE v \in Range(row) : \A u \in Range(row) : u <= v

(* the score of filter i: the largest entry of row i of results['dist'], *)
(* or else the absolute value of the filter's output weight               *)
Score(i) ==
    IF "dist" \in DOMAIN results THEN RowMax(results.dist[i])
    ELSE IF Last(filters[i]) < 0 THEN 0 - Last(filters[i]) ELSE Last(filters[i])

FiltersAndPlot ==
    /\ filters = (IF results.selected_filters # <<>> THEN results.selected_filters
                  ELSE results.w_best_net)
    /\ <<"consensus_filter_weights", 0, 0>> \in files <=> results.selected_filters # <<>>

(* C9, as stated: the filters are ranked by Score. *)
C9_RankedByScore ==
    pc = "encode" =>
        /\ \A j \in 1..Len(dist) : REq(dist[j], Int2Rat(Score(sorted_idx[j])))
        /\ FiltersAndPlot

(* C9, amended: the filters are ranked by Score, multiplied by the sign of *)
(* the filter's output weight when positive_filters_only is True; the      *)
(* filter matrix is results['selected_filters'] unless that is None, then  *)
(* results['w_best_net'], and consensus_filter_weights.pdf is written only *)
(* in the former case.                                                     *)
C9_RankedBySignedScore ==
    pc = "encode" =>
        /\ \A j \in 1..Len(dist) :
              LET i == sorted_idx[j]
                  out == Last(filters[i])
                  sgn == IF out > 0 THEN 1 ELSE IF out < 0 THEN -1 ELSE 0
              IN  REq(dist[j], Int2Rat(IF positive_filters_only THEN Score(i) * sgn
                                       ELSE Score(i)))
        /\ Len(dist) = Len(filters)
        /\ Injective(sorted_idx)
        /\ FiltersAndPlot

C9_Witness ==
    /\ pc = "encode"
    /\ "dist" \in DOMAIN results
    /\ positive_filters_only
    /\ Len(dist) = 3
    /\ dist[3].n < 0
    /\ dist[1].n > dist[2].n
    /\ results.selected_filters # <<>>

---------------------------------------------------------------------------
(* C10 *)

(* the sampled CDF of a response: points and values *)
Points(resp) == Linspace(SeqMin(resp), SeqMax(resp))
Values(resp) == [i \in 1..NumPoints |-> ECDF(resp, Points(resp)[i])]

(* the lower points i of the adjacent pairs (i, i+1) whose values differ by *)
(* at least the cutoff                                                      *)
Jumps(resp, cutoff) ==
    {i \in 1..(NumPoints - 1) :
        LET v == Values(resp)
        IN  (v[i + 1].n * v[i].d - v[i].n * v[i + 1].d) * cutoff.d
                >= cutoff.n * v[i].d * v[i + 1].d}

(* C10: the cutoff of a kept filter is filter_response_thres when          *)
(* response_grad_cutoff is None or no adjacent pair of the sampled CDF     *)
(* differs by at least response_grad_cutoff; otherwise it is the lower     *)
(* point of the first such pair met from the highest response down, and    *)
(* lies between the minimum and the maximum response.                      *)
C10_ResponseCutoff ==
    \A r \in Range(responses) :
        IF response_grad_cutoff = None \/ Jumps(r.g, response_grad_cutoff) = {}
        THEN r.t = filter_response_thres
        ELSE LET J == Jumps(r.g, response_grad_cutoff)
                 top == CHOOSE i \in J : \A j \in J : j <= i
             IN  /\ r.t = Points(r.g)[top]
                 /\ RLeq(Int2Rat(SeqMin(r.g)), r.t)
                 /\ RLeq(r.t, Int2Rat(SeqMax(r.g)))

C10_Witness ==
    \E r \in Range(responses) :
        /\ response_grad_cutoff # None
        /\ Jumps(r.g, response_grad_cutoff) # {}
        /\ Cardinality(Range(r.g)) = 3
        /\ r.t # filter_response_thres
        /\ RLess(Int2Rat(SeqMin(r.g)), r.t)
        /\ Len(r.x1) = 1

===========================================================================
